---- MODULE Spec2Model ----
(***************************************************************************)
(* PAL2 parallel-tempering MCMC sampler (PALInferencePTMCMC.PTSampler).    *)
(*                                                                         *)
(* One PTSampler object per MPI rank, the messages in flight between the   *)
(* ranks, and the files under outDir.  Numbers:                            *)
(*   - a parameter vector has ndim = 1 component and is an integer;        *)
(*   - log-likelihoods are integers, -inf, +inf or nan;                    *)
(*   - every log-posterior, log-uniform draw and qxy is held in units of   *)
(*     1/BetaScale, so that 1/temp is the integer Beta(r).                 *)
(* comm.send is taken to be buffered (it returns without a matching recv). *)
(***************************************************************************)
EXTENDS Integers, Sequences, FiniteSets, TLC

\* ------------------------------------------------------------------ values
\* A python value held in p0 / lnlike0 / lnprob0 or carried by a message.
\*   num  : a finite number n          ninf, pinf, nan : float specials
\*   arr1 : a numpy array with one element of unknown finite value, version n
\*          (the 1x1 covariance matrix)
\*   arrN : a numpy array with several elements, version n (the DE buffer,
\*          a chain-file row)
Num(n) == [k |-> "num", n |-> n]
NegInf == [k |-> "ninf", n |-> 0]
PosInf == [k |-> "pinf", n |-> 0]
NaN == [k |-> "nan", n |-> 0]
Arr1(n) == [k |-> "arr1", n |-> n]
ArrN(n) == [k |-> "arrN", n |-> n]

IsFinite(a) == a.k \in {"num", "arr1"}

\* float addition (IEEE): nan absorbs, inf + -inf = nan, inf absorbs finite
VAdd(a, b) ==
    IF a.k = "arrN" \/ b.k = "arrN" THEN ArrN(0)
    ELSE IF a.k = "nan" \/ b.k = "nan" THEN NaN
    ELSE IF IsFinite(a) /\ IsFinite(b)
         THEN (IF a.k = "num" /\ b.k = "num" THEN Num(a.n + b.n) ELSE Arr1(0))
    ELSE IF IsFinite(a) THEN b
    ELSE IF IsFinite(b) THEN a
    ELSE IF a.k = b.k THEN a ELSE NaN

VNeg(a) ==
    CASE a.k = "num" -> Num(0 - a.n)
      [] a.k = "ninf" -> PosInf
      [] a.k = "pinf" -> NegInf
      [] OTHER -> a

VSub(a, b) == VAdd(a, VNeg(b))

\* c * a for an integer c > 0
VScale(c, a) == IF a.k = "num" THEN Num(c * a.n) ELSE a

\* the outcomes of `if a > b:` : "T", "F", "U" (either: an operand is a
\* one-element array of unknown value), "E" (ValueError: the truth value of an
\* array with more than one element is ambiguous)
VGt(a, b) ==
    IF a.k = "arrN" \/ b.k = "arrN" THEN "E"
    ELSE IF a.k = "nan" \/ b.k = "nan" THEN "F"
    ELSE IF a.k = "ninf" \/ b.k = "pinf" THEN "F"
    ELSE IF a.k = "pinf" \/ b.k = "ninf" THEN "T"
    ELSE IF a.k = "num" /\ b.k = "num" THEN (IF a.n > b.n THEN "T" ELSE "F")
    ELSE "U"

\* the outcomes of `if v:`
Truthy(v) ==
    CASE v.k = "num" -> (IF v.n # 0 THEN "T" ELSE "F")
      [] v.k = "arr1" -> "U"
      [] v.k = "arrN" -> "E"
      [] OTHER -> "T"

\* the booleans a test outcome stands for
Outcomes(t) ==
    CASE t = "T" -> {TRUE}
      [] t = "F" -> {FALSE}
      [] t = "U" -> {TRUE, FALSE}
      [] OTHER -> {}

\* ------------------------------------------------------- run configuration
\* The arguments of sample() / initialize() of one run (the same on every
\* rank) and the communicator size.
\*   nchain, Niter, Tskip, isave, thin, burn, covUpdate, KDEupdate,
\*   SCAMweight, AMweight, DEweight, KDEweight : as in the source
\*   aux   : an auxiliary jump was attached with addAuxilaryJump
\*   start : the initial parameter vector p0 handed to each rank
MaxChains == 3

\* temperatureLadder(Tmin = 1) with tstep = 2 (Tmax = 2^(nchain-1)):
\* ladder[ii] = Tmin * tstep ** ii
RECURSIVE Pow(_, _)
Pow(b, e) == IF e = 0 THEN 1 ELSE b * Pow(b, e - 1)

temperatureLadder(nchain) == [ii \in 1..nchain |-> Pow(2, ii - 1)]

\* lnprob, log u and qxy are held in units of 1/BetaScale
BetaScale == Pow(2, MaxChains - 1)

\* 1/self.temp of the rank holding temperature T, in units of 1/BetaScale
BetaOf(T) == BetaScale \div T

\* the user's log-prior: flat on Support, -inf outside.  A one-element array
\* of unknown value gives an unknown value.
Support == {0, 1}

logp(x) ==
    CASE x.k = "num" -> (IF x.n \in Support THEN Num(0) ELSE NegInf)
      [] x.k = "arr1" -> Arr1(0)
      [] OTHER -> NegInf

\* the user's log-likelihood: -2 x^2
logl(x) ==
    CASE x.k = "num" -> Num(0 - 2 * x.n * x.n)
      [] x.k = "arr1" -> Arr1(0)
      [] OTHER -> x

\* 1/self.temp * lnlike + lp, in units of 1/BetaScale
LogPost(T, lnlike, lp) == VAdd(VScale(BetaOf(T), lnlike), VScale(BetaScale, lp))

\* candidates a proposal kernel can return, the uniform draws log(rand()) of
\* [0, 1) and the forward-backward ratios of an asymmetric kernel
Ys == {Num(0), Num(1), Num(2)}
LogUs == {NegInf, Num(0 - 3), Num(0 - 1)}
Qs == {Num(0), Num(5), PosInf}

\* message tags: comm.send(obj, dest) sends with tag 0; recv and Iprobe with
\* no tag argument match any tag (MPI.ANY_TAG) with mpi4py 2 and later, and
\* tag 0 with mpi4py 1
TagSwap == 0
TagTerm == 55
TagCov == 111
TagDE == 222
AnyTag == 0 - 1

\* ------------------------------------------------------------------- state
VARIABLES
    cfg,      \* the run configuration
    rk,       \* rk[r]: the PTSampler object of rank r and the locals of sample()
    chan,     \* chan[<<a, b>>]: messages sent by a, not yet received by b
    files,    \* files[T]: the rows of outDir/chain_T.txt
    covfile,  \* outDir/cov.npy: the covariance version last saved
    writers,  \* history: the ranks that have opened each chain file, and cov.npy,
              \* for writing
    att,      \* history: att[r] = the last swap attempt decided by hot rank r
    orig,     \* history: the AM buffer of the run that was killed
    rj,       \* the RJMCMCSampler object and the outcome of its last jump
    kp        \* the last step-size draw of a covariance kernel

vars == <<cfg, rk, chan, files, covfile, writers, att, orig, rj, kp>>

Ranks == 0..(cfg.nchain - 1)

\* the tag that recv(source = ...) and Iprobe(source = ...) match
RecvTag == cfg.recvTag
Temp(r) == temperatureLadder(cfg.nchain)[r + 1]

\* lines 101-105, 122: maxIter = None (0 here) stands for 2*Niter on hot ranks
\* and Niter on rank 0; N = int(maxIter/thin)
MaxIter(r) ==
    IF cfg.maxIter # 0 THEN cfg.maxIter
    ELSE IF r > 0 THEN 2 * cfg.Niter ELSE cfg.Niter
NStore(r) == MaxIter(r) \div cfg.thin

ZeroSample == [x |-> Num(0), l |-> Num(0), p |-> Num(0)]
NoMH == [on |-> FALSE, lpInf |-> FALSE, acc |-> FALSE, evalL |-> FALSE, qxy |-> Num(0),
         x0 |-> Num(0), l0 |-> Num(0), p0 |-> Num(0), n0 |-> 0]
NoAtt == [on |-> FALSE, acc |-> FALSE, tag |-> 0, recv |-> Num(0), logu |-> Num(0),
          cold |-> ZeroSample, hot |-> ZeroSample,
          genuine |-> FALSE, cret |-> FALSE, hret |-> FALSE,
          cpost |-> ZeroSample, hpost |-> ZeroSample]

\* PTSampler.__init__ : the object after construction
Constructed(resume) ==
    [resume |-> resume, pc |-> "new", iter |-> 0,
     p0 |-> Num(0), lnlike0 |-> Num(0), lnprob0 |-> Num(0),
     naccepted |-> 0, swapProposed |-> 0, nswap_accepted |-> 0, Neff |-> 0,
     propCycle |-> <<>>, randomizedPropCycle |-> <<>>,
     cov |-> 0, kde |-> 0, AMbuffer |-> <<>>, DEbuffer |-> 0 - 1,
     chain |-> <<>>, resumeLength |-> 0, resumechain |-> <<>>, added |-> {},
     ess |-> "none", accRecv |-> 0, jumpCall |-> "none",
     termSent |-> [d \in 1..(cfg.nchain - 1) |-> 0], mh |-> NoMH]

\* ------------------------------------------------------ execution contexts
\* A context is the state being built by one rank's code: the rank `me` and
\* the next value of every variable.  Code that draws at random or tests a
\* value of unknown truth yields a set of contexts.  y and qxy are the locals
\* of PTMCMCOneStep that _jump returns.
Ctx(r) == [me |-> r, rk |-> rk, chan |-> chan, files |-> files,
           covfile |-> covfile, writers |-> writers, att |-> att,
           y |-> Num(0), qxy |-> Num(0)]

S(e) == e.rk[e.me]
Upd(e, s) == [e EXCEPT !.rk[e.me] = s]
Live(e) == S(e).pc \notin {"error", "exit", "hang"}
Raise(e) == Upd(e, [S(e) EXCEPT !.pc = "error"])

\* S >>= F : run F on every context of S that has not failed
Bind(SS, F(_)) == UNION {IF Live(e) THEN F(e) ELSE {e} : e \in SS}

\* comm.send(v, dest = dst, tag = tag)
Send(e, dst, tag, v) ==
    [e EXCEPT !.chan[<<e.me, dst>>] = Append(@, [tag |-> tag, v |-> v])]

Matches(m, tag) == tag = AnyTag \/ m.tag = tag

\* comm.Iprobe(source = src, tag = tag)
Iprobe(e, src, tag) ==
    \E i \in 1..Len(e.chan[<<src, e.me>>]) : Matches(e.chan[<<src, e.me>>][i], tag)

\* comm.recv(source = src, tag = tag): the first matching message (messages of
\* one sender do not overtake each other)
FirstMatch(q, tag) == CHOOSE i \in 1..Len(q) : Matches(q[i], tag) /\
                         \A j \in 1..(i - 1) : ~Matches(q[j], tag)
RecvMsg(e, src, tag) == LET q == e.chan[<<src, e.me>>] IN q[FirstMatch(q, tag)]
RecvRest(e, src, tag) ==
    LET q == e.chan[<<src, e.me>>]
        i == FirstMatch(q, tag)
    IN [e EXCEPT !.chan[<<src, e.me>>] = SubSeq(q, 1, i - 1) \o SubSeq(q, i + 1, Len(q))]

\* ---------------------------------------------------------- proposal cycle
\* addProposalToCycle(func, weight): sys.exit() on weight 0, else one append
\* per ii of range(length, length + weight), which is empty for weight < 0.
\* History: added keeps the (func, weight) of every call that returned.
addProposalToCycle(e, func, weight) ==
    IF weight = 0
    THEN Upd(e, [S(e) EXCEPT !.pc = "exit"])
    ELSE Upd(e, [S(e) EXCEPT !.propCycle = @ \o [ii \in 1..weight |-> func],
                             !.added = @ \cup {[func |-> func, weight |-> weight]}])

\* a randomization that leaves the randomized cycle as it was
randomizeProposalCycleKept(e) == {e}

\* the index range of np.random.randint(0, length - 1, length)
RandintRange(length) == 0..(length - 2)

\* randomizeProposalCycle(): randint raises ValueError when length - 1 <= 0
randomizeProposalCycle(e) ==
    LET length == Len(S(e).propCycle)
    IN IF RandintRange(length) = {}
       THEN {Raise(e)}
       ELSE {Upd(e, [S(e) EXCEPT !.randomizedPropCycle =
                        [i \in 1..length |-> S(e).propCycle[index[i] + 1]]]) :
               index \in [1..length -> RandintRange(length)]}

\* ------------------------------------------------------------- chain store
\* the row of the chain file for store index ind, written at iteration iter.
\* acc and ptacc are the quotients naccepted/iter and
\* nswap_accepted/swapProposed, kept as <<numerator, denominator>>.
FileRow(e, iter, ind) ==
    LET s == S(e)
    IN [lnprob |-> s.chain[ind + 1].p, lnlike |-> s.chain[ind + 1].l,
        acc |-> <<s.naccepted, iter>>,
        ptacc |-> IF e.me < cfg.nchain - 1 /\ s.swapProposed # 0
                  THEN <<s.nswap_accepted, s.swapProposed>> ELSE <<1, 1>>,
        x |-> s.chain[ind + 1].x, ind |-> ind]

\* the rows of range(iter - isave, iter, thin), from jj on
RECURSIVE SlabRows(_, _, _)
SlabRows(e, iter, jj) ==
    IF jj >= iter THEN <<>>
    ELSE <<FileRow(e, iter, jj \div cfg.thin)>> \o SlabRows(e, iter, jj + cfg.thin)

\* _writeToFile(iter): append one row per jj of range(iter-isave, iter, thin)
writeToFile(e, iter) ==
    [e EXCEPT !.files[Temp(e.me)] = @ \o SlabRows(e, iter, iter - cfg.isave),
              !.writers.chain[Temp(e.me)] = @ \cup {e.me}]

\* updateChains(p0, lnlike0, lnprob0, iter) with the rank's current values.
\* An index past the end of an array raises IndexError; assigning an array of
\* several elements to a row of ndim = 1 entries raises ValueError.
updateChains(e, iter) ==
    LET s == S(e)
        ind == iter \div cfg.thin
        s1 == IF e.me = 0 THEN [s EXCEPT !.AMbuffer[iter + 1] = s.p0] ELSE s
        s2 == IF iter % cfg.thin = 0
              THEN [s1 EXCEPT !.chain[ind + 1] =
                        [x |-> s.p0, l |-> s.lnlike0, p |-> s.lnprob0]]
              ELSE s1
        e2 == Upd(e, s2)
    IN IF s.p0.k = "arrN" /\ (e.me = 0 \/ iter % cfg.thin = 0) THEN Raise(e)
       ELSE IF e.me = 0 /\ iter >= Len(s.AMbuffer) THEN Raise(e)
       ELSE IF iter % cfg.thin = 0 /\ ind >= Len(s.chain) THEN Raise(Upd(e, s1))
       ELSE IF iter % cfg.isave = 0 /\ iter > 1 /\ iter > s.resumeLength
       THEN [writeToFile(e2, iter) EXCEPT !.covfile = s.cov,
                                          !.writers.cov = @ \cup {e.me}]
       ELSE e2

\* ------------------------------------------------------------- initialize
\* the columns of a chain-file row: 4 leading columns and ndim parameters
RowColumns == 5

\* resumechain[iter, 3:] : the columns from index 3 on, that is the swap
\* acceptance rate and the ndim parameters: an array of ndim + 1 elements
RowFrom3(row) == ArrN(row.ind)

\* initialize(Niter, ...) as called by sample() with i0 = 0.  An absent and an
\* empty chain file behave alike (np.loadtxt of an empty file has shape (0,)).
\* np.loadtxt of a file of one row is one-dimensional: shape[0] is the number
\* of columns.
initialize(e) ==
    LET r == e.me
        rows == e.files[Temp(r)]
        resuming == S(e).resume /\ Len(rows) > 0
        s1 == [S(e) EXCEPT
                 !.chain = [i \in 1..NStore(r) |-> ZeroSample],
                 !.naccepted = 0, !.swapProposed = 0, !.nswap_accepted = 0,
                 !.AMbuffer = IF r = 0 THEN [i \in 1..cfg.Niter |-> Num(0)] ELSE @,
                 !.DEbuffer = IF r = 0 THEN 0 ELSE @,
                 !.resumeLength = IF resuming
                                  THEN (IF Len(rows) = 1 THEN RowColumns ELSE Len(rows))
                                  ELSE 0,
                 !.resumechain = IF resuming THEN rows ELSE @]
        e1 == [Upd(e, s1) EXCEPT !.files[Temp(r)] = IF resuming THEN @ ELSE <<>>,
                                 !.writers.chain[Temp(r)] = @ \cup {r}]
        e2 == addProposalToCycle(e1, "SCAM", cfg.SCAMweight)
        e3 == IF Live(e2) THEN addProposalToCycle(e2, "AM", cfg.AMweight) ELSE e2
    IN Bind({e3}, randomizeProposalCycle)

\* sample(), from the call of initialize to the barrier
SampleHead(e) ==
    LET s == S(e)
        r == e.me
        x == cfg.start[r + 1]
        lp == logp(x)
        fresh == IF lp = NegInf
                 THEN [s EXCEPT !.p0 = x, !.lnlike0 = NegInf, !.lnprob0 = NegInf]
                 ELSE [s EXCEPT !.p0 = x, !.lnlike0 = logl(x),
                                !.lnprob0 = LogPost(Temp(r), logl(x), lp)]
        row == s.resumechain[1]
        resumed == [s EXCEPT !.p0 = RowFrom3(row), !.lnlike0 = row.lnlike,
                             !.lnprob0 = row.lnprob]
        e1 == IF s.resume /\ s.resumeLength > 0
              THEN (IF Len(s.resumechain) = 1 THEN Raise(e) ELSE Upd(e, resumed))
              ELSE Upd(e, fresh)
        e2 == IF Live(e1) THEN updateChains(e1, 0) ELSE e1
    IN {IF Live(e2) THEN Upd(e2, [S(e2) EXCEPT !.pc = "barrier"]) ELSE e2}

\* ----------------------------------------------------------------- actions
Commit(e) ==
    /\ rk' = e.rk
    /\ chan' = e.chan
    /\ files' = e.files
    /\ covfile' = e.covfile
    /\ writers' = e.writers
    /\ att' = e.att

\* sample(p0, Niter, ...) up to comm.barrier()
SampleStart(r) ==
    /\ rk[r].pc = "new"
    /\ \E e \in Bind(initialize(Ctx(r)), SampleHead) : Commit(e)
    /\ UNCHANGED <<cfg, orig, rj, kp>>

\* comm.barrier(): every rank has arrived; iter = i0, runComplete = False
Barrier ==
    /\ \A r \in Ranks : rk[r].pc = "barrier"
    /\ rk' = [r \in Ranks |-> [rk[r] EXCEPT !.pc = "top"]]
    /\ UNCHANGED <<cfg, chan, files, covfile, writers, att, orig, rj, kp>>

\* ------------------------------------------------------- PTMCMCOneStep
\* [self.comm.send(v, dest=rank+1, tag=tag) for rank in range(self.nchain-1)]
RECURSIVE Broadcast(_, _, _, _)
Broadcast(e, tag, v, rank) ==
    IF rank >= cfg.nchain - 1 THEN e
    ELSE Broadcast(Send(e, rank + 1, tag, v), tag, v, rank + 1)

\* A covariance matrix is named by the iteration it was computed at (0 for
\* the matrix given to __init__).  The first update with mem = 1 divides the
\* zero matrix M2 by it - 1 = 0: every entry is nan.  Every later matrix is a
\* sample covariance of two or more rows.
PositiveSemiDefinite(c) == ~(cfg.covUpdate = 1 /\ c = 1)

\* self.U, self.S, v = np.linalg.svd(self.cov): of a matrix of nan entries
\* the decomposition raises LinAlgError or returns nan factors, by the LAPACK
\* build
svd(e) == IF PositiveSemiDefinite(S(e).cov) THEN {e} ELSE {e, Raise(e)}

\* _updateRecursive(iter, mem): self.cov is assigned, then decomposed
updateRecursive(e, it) == svd(Upd(e, [S(e) EXCEPT !.cov = it]))

\* lines 338-352: covariance update and broadcast on rank 0, receipt elsewhere
CovarianceStage(e) ==
    LET it == S(e).iter
        Update == IF (it - 1) % cfg.covUpdate = 0 /\ (it - 1) # 0 /\ e.me = 0
                  THEN {IF Live(x) THEN Broadcast(x, TagCov, Arr1(it - 1), 0) ELSE x :
                          x \in updateRecursive(e, it - 1)}
                  ELSE {e}
        Receive(e1) ==
            LET getCovariance == Iprobe(e1, 0, TagCov)
            IN IF getCovariance /\ e1.me > 0
               THEN svd(Upd(RecvRest(e1, 0, TagCov),
                            [S(e1) EXCEPT !.cov = RecvMsg(e1, 0, TagCov).v.n]))
               ELSE {e1}
    IN Bind(Update, Receive)

\* _updateKDE(iter): the KDE of AMbuffer[burn:iter], named by iter
updateKDE(e, it) == Upd(e, [S(e) EXCEPT !.kde = it])

\* the test that adds the KDE kernel after a refit (line 360)
FirstKDEUpdate(it) == (it - 1) = cfg.burn + cfg.KDEupdate

\* lines 355-362
KDEStage(e) ==
    LET it == S(e).iter
    IN IF (it - 1) % cfg.KDEupdate = 0 /\ (it - 1) >= cfg.burn + cfg.KDEupdate
          /\ cfg.KDEweight > 0 /\ e.me = 0
       THEN IF FirstKDEUpdate(it)
            THEN Bind({addProposalToCycle(updateKDE(e, it - 1), "KDE", cfg.KDEweight)},
                      randomizeProposalCycle)
            ELSE {updateKDE(e, it - 1)}
       ELSE {e}

\* an update that leaves the buffer of initialize in place
updateDEbufferSkipped(e, it) == e

\* _updateDEbuffer(iter, burn): AMbuffer[iter-burn:iter], named by iter
updateDEbuffer(e, it) == Upd(e, [S(e) EXCEPT !.DEbuffer = it])

\* the burn x ndim array self._DEbuffer, named by the iteration it was cut at
DEbufferValue(it) == IF cfg.burn = 1 THEN Arr1(it) ELSE ArrN(it)

\* a test that never finds the kernel
InCycleNever(s, func) == FALSE

\* func in self.propCycle
InCycle(s, func) == \E i \in 1..Len(s.propCycle) : s.propCycle[i] = func

\* lines 365-394: DE buffer update and broadcast on rank 0, receipt elsewhere,
\* and the DE kernel added after burn in
DEStage(e) ==
    LET it == S(e).iter
        e1 == IF (it - 1) % cfg.burn = 0 /\ (it - 1) # 0 /\ e.me = 0
              THEN Broadcast(updateDEbuffer(e, it - 1), TagDE, DEbufferValue(it - 1), 0)
              ELSE e
        getDEbuf == Iprobe(e1, 0, TagDE)
        e2 == Upd(RecvRest(e1, 0, TagDE),
                  [S(e1) EXCEPT !.DEbuffer = RecvMsg(e1, 0, TagDE).v.n])
        got == IF getDEbuf /\ e.me > 0
               THEN (IF ~InCycle(S(e2), "DE")
                     THEN Bind({addProposalToCycle(e2, "DE", cfg.DEweight)},
                               randomizeProposalCycle)
                     ELSE {e2})
               ELSE {e1}
        AfterBurn(x) == IF (it - 1) = cfg.burn /\ x.me = 0
                        THEN Bind({addProposalToCycle(x, "DE", cfg.DEweight)},
                                  randomizeProposalCycle)
                        ELSE {x}
    IN Bind(got, AfterBurn)

\* the (q, qxy) a kernel can return.  SCAM, AM and DE are symmetric (qxy = 0).
\* DEJump draws two distinct rows of the DE buffer: with one row it never
\* returns, with none randint raises; from the zero buffer it returns x.
KernelCall(e, func) ==
    LET s == S(e)
    IN CASE func = "KDE" -> {[e EXCEPT !.y = q, !.qxy = d] : q \in cfg.ys, d \in Qs}
         [] func = "DE" ->
              IF s.DEbuffer < 0 \/ cfg.burn < 1 THEN {Raise(e)}
              ELSE IF cfg.burn = 1 THEN {Upd(e, [s EXCEPT !.pc = "hang"])}
              ELSE IF s.DEbuffer = 0 THEN {[e EXCEPT !.y = s.p0, !.qxy = Num(0)]}
              ELSE {[e EXCEPT !.y = q, !.qxy = Num(0)] : q \in cfg.ys}
         [] OTHER -> {[e EXCEPT !.y = q, !.qxy = Num(0)] : q \in cfg.ys}

\* q, qxy_aux = self.aux(x, q, iter, 1/self.temp); qxy += qxy_aux
AuxCall(e) ==
    IF cfg.aux
    THEN {[e EXCEPT !.y = q, !.qxy = VAdd(e.qxy, d)] : q \in cfg.ys, d \in Qs}
    ELSE {e}

\* _jump(x, iter).  History: jumpCall tells whether at the last call the two
\* cycles had the same length and the selected entry was a kernel of propCycle.
jump(e) ==
    LET s == S(e)
        length == Len(s.propCycle)
        pos == s.iter % length
        valid == /\ Len(s.randomizedPropCycle) = length
                 /\ pos < Len(s.randomizedPropCycle)
                 /\ InCycle(s, s.randomizedPropCycle[pos + 1])
        e0 == Upd(e, [s EXCEPT !.jumpCall = IF valid THEN "valid" ELSE "invalid"])
        Rerandomize(x) == IF s.iter % length = 0 THEN randomizeProposalCycle(x) ELSE {x}
    IN IF pos >= Len(s.randomizedPropCycle) THEN {Raise(e0)}
       ELSE Bind(Bind(KernelCall(e0, s.randomizedPropCycle[pos + 1]), AuxCall),
                 Rerandomize)

\* a >= b in place of a > b
VGe(a, b) == IF a = b /\ a.k \in {"num", "ninf", "pinf"} THEN "T" ELSE VGt(a, b)

\* the hastings test with `>=` in place of `>`
HastingsOrEqual(newlnprob, lnprob0, qxy, logu) ==
    VGe(VAdd(VSub(newlnprob, lnprob0), qxy), logu)

\* the outcome of the hastings test `diff > np.log(np.random.rand())`
Hastings(newlnprob, lnprob0, qxy, logu) == VGt(VAdd(VSub(newlnprob, lnprob0), qxy), logu)

\* lines 407-430: one Metropolis-Hastings step on the candidate (e.y, e.qxy).
\* newlnlike is bound only when the prior of y is finite: accepting a
\* candidate of prior -inf raises UnboundLocalError.  History: mh records the
\* step when the candidate has prior -inf.
MHStep(e) ==
    LET s == S(e)
        lp == logp(e.y)
        lpInf == lp = NegInf
        newlnlike == logl(e.y)
        newlnprob == IF lpInf THEN NegInf ELSE LogPost(Temp(e.me), newlnlike, lp)
        rec(acc) == IF lpInf
                    THEN [on |-> TRUE, lpInf |-> lpInf, acc |-> acc, evalL |-> ~lpInf,
                          qxy |-> e.qxy, x0 |-> s.p0, l0 |-> s.lnlike0, p0 |-> s.lnprob0,
                          n0 |-> s.naccepted]
                    ELSE NoMH
        Test(logu) == Hastings(newlnprob, s.lnprob0, e.qxy, logu)
        Accepted == IF lpInf
                    THEN Upd(e, [s EXCEPT !.pc = "error", !.mh = rec(TRUE)])
                    ELSE Upd(e, [s EXCEPT !.p0 = e.y, !.lnlike0 = newlnlike,
                                          !.lnprob0 = newlnprob,
                                          !.naccepted = @ + 1, !.mh = rec(TRUE)])
        Rejected == Upd(e, [s EXCEPT !.mh = rec(FALSE)])
    IN UNION {IF Test(logu) = "E" THEN {Raise(e)}
              ELSE {IF acc THEN Accepted ELSE Rejected : acc \in Outcomes(Test(logu))} :
              logu \in LogUs}

\* lines 398-405: replay of a stored row while iter < resumeLength
Replay(e) ==
    LET s == S(e)
        row == s.resumechain[s.iter + 1]
    IN IF s.iter >= Len(s.resumechain) THEN Raise(e)
       ELSE Upd(e, [s EXCEPT !.p0 = RowFrom3(row), !.lnlike0 = row.lnlike,
                             !.lnprob0 = row.lnprob,
                             !.naccepted = (s.iter * row.acc[1]) \div row.acc[2]])

\* lines 396-430
ProposalStage(e) ==
    LET s == S(e)
    IN IF s.resume /\ s.resumeLength > 0 /\ s.iter < s.resumeLength
       THEN {Replay(e)}
       ELSE Bind(jump(e), MHStep)

\* iter += 1 and PTMCMCOneStep up to the call of PTswap
\* history: an attempt both sides have returned from is forgotten when one of
\* them starts its next step
ForgetAttempts(e) ==
    [e EXCEPT !.att = [r \in DOMAIN @ |->
                         IF @[r].cret /\ @[r].hret /\ e.me \in {r, r - 1}
                         THEN NoAtt ELSE @[r]]]

OneStepHead(e) ==
    LET e0 == Upd(ForgetAttempts(e), [S(e) EXCEPT !.iter = @ + 1])
        e4 == Bind(Bind(Bind(CovarianceStage(e0), KDEStage), DEStage), ProposalStage)
    IN {IF Live(x) THEN Upd(x, [S(x) EXCEPT !.pc = "swap"]) ELSE x : x \in e4}

StepHead(r) ==
    /\ rk[r].pc = "top"
    /\ \E e \in OneStepHead(Ctx(r)) : Commit(e)
    /\ UNCHANGED <<cfg, orig, rj, kp>>

\* --------------------------------------------------- the end of one step
\* the integrated autocorrelation check of sample() runs every EssEvery
\* iterations
EssEvery == 1000

Current(s) == [x |-> s.p0, l |-> s.lnlike0, p |-> s.lnprob0]

\* lines 290-298: Neff = iter / max(acor) on rank 0; without the acor package
\* the NameError is caught and Neff = 0.  An exception that acor.acor raises
\* for a dimension is no NameError and leaves the try statement uncaught.
\* History: ess records how the last check ended.
EssStage(e) ==
    LET s == S(e)
    IN IF s.iter % EssEvery = 0 /\ s.iter > 2 * cfg.burn /\ e.me = 0
       THEN IF cfg.acor
            THEN {Upd(e, [s EXCEPT !.Neff = n, !.ess = "estimate"]) : n \in {0, s.iter}}
                 \cup {Raise(Upd(e, [s EXCEPT !.ess = "failed"]))}
            ELSE {Upd(e, [s EXCEPT !.Neff = 0, !.ess = "missing"])}
       ELSE {e}

\* a hot rank that also stops on its own iteration count
RunCompleteAlone(e) ==
    S(e).iter >= cfg.Niter - 1 \/ (e.me > 0 /\ Iprobe(e, 0, TagTerm))

\* lines 301 and 317-318: the value of runComplete after the tests of the
\* loop body
RunComplete(e) ==
    IF e.me = 0
    THEN S(e).iter >= cfg.Niter - 1 \/ S(e).Neff > cfg.neff
    ELSE Iprobe(e, 0, TagTerm)

\* lines 300-319: the termination tests of the sampling loop.  History:
\* termSent[d] counts the TERM messages sent to rank d.
LoopTail(e) ==
    LET s == S(e)
        runComplete == RunComplete(e)
        e0 == Broadcast(e, TagTerm, Num(1), 0)
        e1 == IF e.me = 0 /\ runComplete
              THEN Upd(e0, [s EXCEPT !.termSent =
                              [d \in DOMAIN @ |->
                                 @[d] + Len(e0.chan[<<0, d>>]) - Len(e.chan[<<0, d>>])]])
              ELSE e
    IN {Upd(e1, [S(e1) EXCEPT !.pc = IF runComplete THEN "done" ELSE "top"])}

\* history: PTswap returns on the colder (role "cold") or hotter (role "hot")
\* side of a decided attempt
NoteReturn(e, role) ==
    LET r == e.me
    IN IF role = "cold" /\ e.att[r + 1].on /\ ~e.att[r + 1].cret
       THEN [e EXCEPT !.att[r + 1].cret = TRUE, !.att[r + 1].cpost = Current(S(e))]
       ELSE IF role = "hot" /\ e.att[r].on /\ ~e.att[r].hret
       THEN [e EXCEPT !.att[r].hret = TRUE, !.att[r].hpost = Current(S(e))]
       ELSE e

\* counters that take every proposed swap for an accepted one
SwapCountersAllAccepted(s, swapReturn) ==
    [s EXCEPT !.swapProposed = IF swapReturn # 0 THEN @ + 1 ELSE @,
              !.nswap_accepted = IF swapReturn # 0 THEN @ + 1 ELSE @]

\* lines 435-439: the swap counters after PTswap returned swapReturn
SwapCounters(s, swapReturn) ==
    [s EXCEPT !.swapProposed = IF swapReturn # 0 THEN @ + 1 ELSE @,
              !.nswap_accepted = IF swapReturn = 2 THEN @ + 1 ELSE @]

\* lines 435-443 of PTMCMCOneStep after PTswap returned swapReturn, and the
\* rest of the loop body of sample()
Finish(e, swapReturn, role) ==
    LET s == S(e)
        s1 == SwapCounters(s, swapReturn)
        e1 == updateChains(NoteReturn(Upd(e, s1), role), s.iter)
    IN Bind(Bind({e1}, EssStage), LoopTail)

\* ------------------------------------------------------------------ PTswap
\* the swap test with the two likelihoods exchanged
SwapTestReversed(r, lnlike0, newlnlike, logu) ==
    VGt(VScale(BetaOf(Temp(r - 1)) - BetaOf(Temp(r)), VSub(newlnlike, lnlike0)), logu)

\* (1/ladder[r-1] - 1/ladder[r]) * (lnlike0 - newlnlike) > log(rand())
SwapTest(r, lnlike0, newlnlike, logu) ==
    VGt(VScale(BetaOf(Temp(r - 1)) - BetaOf(Temp(r)), VSub(lnlike0, newlnlike)), logu)

\* lines 499-527: the hotter rank decides on the message it received
HotDecide(e, logu, acc) ==
    LET r == e.me
        s == S(e)
        m == RecvMsg(e, r - 1, RecvTag)
        e1 == RecvRest(e, r - 1, RecvTag)
        rec == [on |-> TRUE, acc |-> acc, tag |-> m.tag, recv |-> m.v, logu |-> logu,
                cold |-> Current(e.rk[r - 1]), hot |-> Current(s),
                genuine |-> e.rk[r - 1].pc = "recvDec" /\ e.chan[<<r, r - 1>>] = <<>>,
                cret |-> FALSE, hret |-> FALSE,
                cpost |-> ZeroSample, hpost |-> ZeroSample]
        e2 == [Send(e1, r - 1, TagSwap, Num(IF acc THEN 1 ELSE 0)) EXCEPT !.att[r] = rec]
    IN IF acc
       THEN {Upd(Send(Send(e2, r - 1, TagSwap, s.lnlike0), r - 1, TagSwap, s.p0),
                 [s EXCEPT !.lnlike0 = m.v, !.pc = "recvP0h"])}
       ELSE Finish(e2, 0, "hot")

\* PTswap up to its first blocking receive
PTswapEntry(e) ==
    LET r == e.me
        s == S(e)
    IN IF s.iter % cfg.Tskip = 0 /\ r < cfg.nchain - 1
       THEN {Upd(Send(e, r + 1, TagSwap, s.lnlike0), [s EXCEPT !.pc = "recvDec"])}
       ELSE IF r > 0 /\ Iprobe(e, r - 1, RecvTag)
       THEN UNION {LET t == SwapTest(r, s.lnlike0, RecvMsg(e, r - 1, RecvTag).v, logu)
                   IN IF t = "E" THEN {Raise(RecvRest(e, r - 1, RecvTag))}
                      ELSE UNION {HotDecide(e, logu, acc) : acc \in Outcomes(t)} :
                   logu \in LogUs}
       ELSE Finish(e, 0, "none")

ClearMH(e) == Upd(e, [S(e) EXCEPT !.mh = NoMH])

SwapEntry(r) ==
    /\ rk[r].pc = "swap"
    /\ \E e \in PTswapEntry(ClearMH(Ctx(r))) : Commit(e)
    /\ UNCHANGED <<cfg, orig, rj, kp>>

\* line 475: swapAccepted = self.comm.recv(source=self.MPIrank+1)
\* History: accRecv counts the accept decisions the rank has received from
\* rank r + 1.
ColdDecision(e) ==
    LET r == e.me
        m == RecvMsg(e, r + 1, RecvTag)
        e1 == RecvRest(e, r + 1, RecvTag)
        t == Truthy(m.v)
    IN IF t = "E" THEN {Raise(e1)}
       ELSE UNION {IF swapAccepted
                   THEN {Upd(e1, [S(e1) EXCEPT !.pc = "recvL", !.accRecv = @ + 1])}
                   ELSE Finish(e1, 1, "cold") : swapAccepted \in Outcomes(t)}

ColdRecvDec(r) ==
    /\ rk[r].pc = "recvDec"
    /\ Iprobe(Ctx(r), r + 1, RecvTag)
    /\ \E e \in ColdDecision(Ctx(r)) : Commit(e)
    /\ UNCHANGED <<cfg, orig, rj, kp>>

\* lines 481-484: receive the hotter likelihood, send the own parameters
ColdExchange(e) ==
    LET r == e.me
        m == RecvMsg(e, r + 1, RecvTag)
        e1 == RecvRest(e, r + 1, RecvTag)
    IN {Upd(Send(e1, r + 1, TagSwap, S(e).p0),
            [S(e) EXCEPT !.lnlike0 = m.v, !.pc = "recvP0c"])}

ColdRecvL(r) ==
    /\ rk[r].pc = "recvL"
    /\ Iprobe(Ctx(r), r + 1, RecvTag)
    /\ \E e \in ColdExchange(Ctx(r)) : Commit(e)
    /\ UNCHANGED <<cfg, orig, rj, kp>>

\* lines 485-488 and 524-527: receive the partner's parameters from rank src
\* and recompute the posterior at the own temperature
ReceiveParameters(e, src, swapReturn, role) ==
    LET r == e.me
        m == RecvMsg(e, src, RecvTag)
        e1 == RecvRest(e, src, RecvTag)
        s == S(e)
    IN IF m.v.k = "arrN" THEN {Raise(e1)}
       ELSE Finish(Upd(e1, [s EXCEPT !.p0 = m.v,
                                     !.lnprob0 = LogPost(Temp(r), s.lnlike0, logp(m.v))]),
                   swapReturn, role)

ColdRecvP0(r) ==
    /\ rk[r].pc = "recvP0c"
    /\ Iprobe(Ctx(r), r + 1, RecvTag)
    /\ \E e \in ReceiveParameters(Ctx(r), r + 1, 2, "cold") : Commit(e)
    /\ UNCHANGED <<cfg, orig, rj, kp>>

HotRecvP0(r) ==
    /\ rk[r].pc = "recvP0h"
    /\ Iprobe(Ctx(r), r - 1, RecvTag)
    /\ \E e \in ReceiveParameters(Ctx(r), r - 1, 0, "hot") : Commit(e)
    /\ UNCHANGED <<cfg, orig, rj, kp>>

\* the process is killed between two iterations, after a checkpoint, and a new
\* PTSampler(resume = True) is constructed over the files it left.  History:
\* orig keeps the vector the killed run held at each iteration.
Restart(r) ==
    /\ cfg.nchain = 1
    /\ rk[r].pc = "top"
    /\ ~rk[r].resume
    /\ Len(files[Temp(r)]) > 0
    /\ rk' = [rk EXCEPT ![r] = Constructed(TRUE)]
    /\ orig' = rk[r].AMbuffer
    /\ UNCHANGED <<cfg, chan, files, covfile, writers, att, rj, kp>>

\* ------------------------------------------------------------ RJMCMCSampler
\* the model identifiers and the number of addSampler calls followed
MaxModels == 3
MaxAdds == 4
Models == 1..MaxModels

NoJump == [on |-> FALSE, m0 |-> 0, ind |-> 0, m1 |-> 0, outcome |-> "none"]

\* RJMCMCSampler.__init__ : samplerDict and TDJumpDict by their sets of keys
RJConstructed == [samplerDict |-> {}, TDJumpDict |-> {}, nmodels |-> 0, jump |-> NoJump]

\* addSampler(model, ...): the entry of the model is set, the counter grows
AddSampler(model) ==
    /\ rj.nmodels < MaxAdds
    /\ rj' = [rj EXCEPT !.samplerDict = @ \cup {model}, !.nmodels = @ + 1]
    /\ UNCHANGED <<cfg, rk, chan, files, covfile, writers, att, orig, kp>>

\* constructGaussianKDE(model, chain)
ConstructGaussianKDE(model) ==
    /\ rj' = [rj EXCEPT !.TDJumpDict = @ \cup {model}]
    /\ UNCHANGED <<cfg, rk, chan, files, covfile, writers, att, orig, kp>>

\* dict.keys() as a list: the order is fixed for a given dictionary (ascending
\* for the small integers that stand for the model identifiers)
RECURSIVE Keys(_)
Keys(d) ==
    IF d = {} THEN <<>>
    ELSE LET m == CHOOSE x \in d : \A y \in d : x <= y IN <<m>> \o Keys(d \ {m})

\* the values np.random.randint(0, nmodels) can return
RandintBelow(high) == 0..(high - 1)

\* the outcome of gaussianKDEJump(x0, m0, iter) when randint returns ind
JumpOutcome(m0, ind) ==
    LET keys == Keys(rj.TDJumpDict)
    IN IF ind >= Len(keys)
       THEN [on |-> TRUE, m0 |-> m0, ind |-> ind, m1 |-> 0, outcome |-> "IndexError"]
       ELSE IF m0 \notin rj.TDJumpDict
       THEN [on |-> TRUE, m0 |-> m0, ind |-> ind, m1 |-> keys[ind + 1],
             outcome |-> "KeyError"]
       ELSE [on |-> TRUE, m0 |-> m0, ind |-> ind, m1 |-> keys[ind + 1],
             outcome |-> "returned"]

\* gaussianKDEJump(x0, m0, iter) with m0 a model that has a sampler; randint
\* raises ValueError when nmodels = 0
GaussianKDEJump(m0) ==
    /\ m0 \in rj.samplerDict
    /\ \E ind \in RandintBelow(rj.nmodels) : rj' = [rj EXCEPT !.jump = JumpOutcome(m0, ind)]
    /\ UNCHANGED <<cfg, rk, chan, files, covfile, writers, att, orig, kp>>

\* ------------------------------------------------- covariance kernel scale
\* np.random.rand() in hundredths; the thresholds 0.9 and 0.97 of the step
\* size cascade; scales in tenths (0.2, 10 and 1.0)
Probs == 0..99
SmallJumpAbove == 90
LargeJumpAbove == 97
SmallScale == 2
LargeScale == 100
MediumScale == 10

NoDraw == [on |-> FALSE, func |-> "none", prob |-> 0, scale |-> 0]

\* lines 712-728 and 767-783: `if prob > 0.9: scale = 0.2`, `elif prob > 0.97:
\* scale = 10`, `else: scale = 1.0`
StepScale(prob) ==
    IF prob > SmallJumpAbove THEN SmallScale
    ELSE IF prob > LargeJumpAbove THEN LargeScale
    ELSE MediumScale

\* covarianceJumpProposalSCAM(x, iter, beta) up to the temperature factor
covarianceJumpProposalSCAM(prob) ==
    /\ kp' = [on |-> TRUE, func |-> "SCAM", prob |-> prob, scale |-> StepScale(prob)]
    /\ UNCHANGED <<cfg, rk, chan, files, covfile, writers, att, orig, rj>>

\* covarianceJumpProposalAM(x, iter, beta) up to the temperature factor
covarianceJumpProposalAM(prob) ==
    /\ kp' = [on |-> TRUE, func |-> "AM", prob |-> prob, scale |-> StepScale(prob)]
    /\ UNCHANGED <<cfg, rk, chan, files, covfile, writers, att, orig, rj>>

\* ------------------------------------------------------------ specification
\* a run of one chain with every periodic event (swap, save, covariance, DE
\* and KDE update) later than the last iteration; the configurations below
\* move the events they are about into the run
Late == 64

Base ==
    [nchain |-> 1, Niter |-> 4, maxIter |-> 0, Tskip |-> Late, isave |-> Late,
     thin |-> 1, burn |-> Late, covUpdate |-> Late, KDEupdate |-> Late,
     SCAMweight |-> 1, AMweight |-> 1, DEweight |-> 1, KDEweight |-> 1,
     aux |-> FALSE, acor |-> TRUE, neff |-> 100000, recvTag |-> AnyTag, ys |-> Ys,
     start |-> <<Num(0)>>]

\* the defaults of the two generations of mpi4py
RecvTags == {AnyTag, TagSwap}

\* every rank starts inside the prior support, or every rank outside
Starts(nchain) == {[r \in 1..nchain |-> x] : x \in {Num(0), Num(2)}}

\* two chains; the covariance broadcast of iteration 3 meets the swap proposal
\* of iteration 3
CovSwapConfigs ==
    {[Base EXCEPT !.nchain = 2, !.Niter = 4, !.maxIter = 4, !.Tskip = 3,
                  !.covUpdate = 2, !.thin = 4, !.start = <<Num(0), Num(0)>>,
                  !.recvTag = tg] : tg \in RecvTags}

\* two chains that save every second iteration
SaveConfigs ==
    {[Base EXCEPT !.nchain = 2, !.Niter = 2, !.Tskip = 1, !.isave = 2,
                  !.thin = 2, !.start = st, !.recvTag = tg] :
       st \in Starts(2), tg \in RecvTags}

\* three chains
LadderConfigs ==
    {[Base EXCEPT !.nchain = 3, !.Niter = 2, !.maxIter = 2, !.Tskip = 2, !.thin = 2,
                  !.start = st, !.recvTag = tg] : st \in Starts(3), tg \in RecvTags}

\* two chains whose kernels return the start point; the DE buffer is
\* broadcast after iterations 2 and 4 and the KDE is fitted after iteration 4
DEConfigs ==
    {[Base EXCEPT !.nchain = 2, !.Niter = 6, !.maxIter = 6, !.thin = 6, !.burn = 2,
                  !.KDEupdate = 2,
                  !.ys = {Num(0)}, !.start = <<Num(0), Num(0)>>, !.recvTag = tg] :
       tg \in RecvTags}

\* two chains with a covariance update after every iteration and a SCAM
\* kernel of weight 2
CovEveryConfigs ==
    {[Base EXCEPT !.nchain = 2, !.Niter = 3, !.maxIter = 3, !.thin = 3, !.covUpdate = 1,
                  !.SCAMweight = 2,
                  !.ys = {Num(0)}, !.start = <<Num(0), Num(0)>>, !.recvTag = tg] :
       tg \in RecvTags}

\* two chains with a swap proposal at each of the two iterations of rank 0
SwapConfigs ==
    {[Base EXCEPT !.nchain = 2, !.Niter = 3, !.maxIter = 3, !.thin = 3, !.Tskip = 1,
                  !.ys = {Num(0), Num(1)}, !.start = <<Num(0), Num(0)>>, !.recvTag = tg] :
       tg \in RecvTags}

Configs ==
    CovSwapConfigs \cup SaveConfigs \cup LadderConfigs \cup DEConfigs \cup CovEveryConfigs
      \cup SwapConfigs

InitWith(CC) ==
    /\ cfg \in CC
    /\ rk = [r \in Ranks |-> Constructed(FALSE)]
    /\ chan = [pq \in Ranks \X Ranks |-> <<>>]
    /\ files = [T \in {Temp(r) : r \in Ranks} |-> <<>>]
    /\ covfile = 0
    /\ writers = [chain |-> [T \in {Temp(r) : r \in Ranks} |-> {}], cov |-> {}]
    /\ att = [r \in Ranks |-> NoAtt]
    /\ orig = <<>>
    /\ rj = RJConstructed
    /\ kp = NoDraw

Init == InitWith(Configs)

Next ==
    \/ \E r \in Ranks : SampleStart(r)
    \/ Barrier
    \/ \E r \in Ranks : StepHead(r)
    \/ \E r \in Ranks : SwapEntry(r)
    \/ \E r \in Ranks : ColdRecvDec(r)
    \/ \E r \in Ranks : ColdRecvL(r)
    \/ \E r \in Ranks : ColdRecvP0(r)
    \/ \E r \in Ranks : HotRecvP0(r)

Spec == Init /\ [][Next]_vars

\* ------------------------------------------------ every rank keeps running
\* three chains that propose a swap at every iteration
HandshakeConfigs ==
    {[Base EXCEPT !.nchain = 3, !.Niter = 2, !.Tskip = 1, !.ys = {Num(0)},
                  !.start = <<Num(0), Num(0), Num(0)>>, !.recvTag = tg] : tg \in RecvTags}

InitFair == InitWith(HandshakeConfigs)

\* the steps of the process of rank r
RankStep(r) ==
    /\ r \in Ranks
    /\ \/ SampleStart(r) \/ StepHead(r) \/ SwapEntry(r)
       \/ ColdRecvDec(r) \/ ColdRecvL(r) \/ ColdRecvP0(r) \/ HotRecvP0(r)

\* RankStep(r) is enabled: the rank is not blocked in a receive, waiting at
\* the barrier or out of its loop
CanStep(r) ==
    /\ r \in Ranks
    /\ \/ rk[r].pc \in {"new", "top", "swap"}
       \/ rk[r].pc \in {"recvDec", "recvL", "recvP0c"} /\ Iprobe(Ctx(r), r + 1, RecvTag)
       \/ rk[r].pc = "recvP0h" /\ Iprobe(Ctx(r), r - 1, RecvTag)

\* a step of RankStep(r) has been taken: only the rank's own steps and the
\* barrier change rk[r]
Moved(r) == r \in Ranks /\ rk[r].pc # "barrier" /\ rk'[r] # rk[r]

\* every MPI process is scheduled: the barrier completes once every rank has
\* arrived, and a rank that can take a step takes one (weak fairness of
\* RankStep(r), written with the enabling condition CanStep(r))
Fairness ==
    /\ WF_vars(Barrier)
    /\ \A r \in 0..(MaxChains - 1) : []<>(~CanStep(r)) \/ []<><<Moved(r)>>_vars

SpecFair == InitFair /\ [][Next]_vars /\ Fairness

\* ------------------------------------------------- one chain, with restarts
\* an auxiliary jump of asymmetric ratio
AuxConfigs == {[Base EXCEPT !.Niter = 3, !.aux = TRUE, !.start = <<x>>] : x \in {Num(0), Num(2)}}

\* checkpoints every isave iterations of a chain thinned by thin
ThinConfigs ==
    {[Base EXCEPT !.Niter = 8, !.isave = is, !.thin = th] : is \in {2, 3}, th \in {1, 2}}

\* KDE refits every second iteration after a burn in of 1 or 2 iterations
KDEConfigs == {[Base EXCEPT !.Niter = 6, !.burn = b, !.KDEupdate = 2] : b \in {1, 2}}

\* a DE weight that is not positive
WeightConfigs ==
    {[Base EXCEPT !.Niter = 6, !.burn = 2, !.KDEupdate = 2, !.DEweight = w] :
       w \in {0 - 1, 0}}

\* a run that reaches the effective sample count check of iteration EssEvery,
\* with and without the acor package; every candidate is outside the prior
\* support and nothing is stored or saved after iteration 0
EssConfigs ==
    {[Base EXCEPT !.Niter = EssEvery + 1, !.thin = EssEvery + 1, !.isave = EssEvery + 1,
                  !.KDEweight = 0, !.ys = {Num(2)}, !.acor = a] : a \in BOOLEAN}

\* a single iteration, and a number of iterations that thin does not divide
ShortConfigs == {[Base EXCEPT !.Niter = 1], [Base EXCEPT !.Niter = 5, !.thin = 2]}

SeqConfigs ==
    AuxConfigs \cup ThinConfigs \cup KDEConfigs \cup WeightConfigs \cup EssConfigs
      \cup ShortConfigs

InitSeq == InitWith(SeqConfigs)

NextSeq ==
    \/ \E r \in Ranks : SampleStart(r)
    \/ Barrier
    \/ \E r \in Ranks : StepHead(r)
    \/ \E r \in Ranks : SwapEntry(r)
    \/ \E r \in Ranks : Restart(r)

SpecSeq == InitSeq /\ [][NextSeq]_vars

\* --------------------------------------------- trans-dimensional proposals
InitRJ == InitWith({Base})

NextRJ ==
    \/ \E model \in Models : AddSampler(model)
    \/ \E model \in Models : ConstructGaussianKDE(model)
    \/ \E m0 \in Models : GaussianKDEJump(m0)

SpecRJ == InitRJ /\ [][NextRJ]_vars

\* ------------------------------------------------------ step-size draws
InitKernel == InitWith({Base})

NextKernel ==
    \/ \E prob \in Probs : covarianceJumpProposalSCAM(prob)
    \/ \E prob \in Probs : covarianceJumpProposalAM(prob)

SpecKernel == InitKernel /\ [][NextKernel]_vars

\* ------------------------------------------------------------- properties
HotRanks == Ranks \ {0}

\* C1: once rank 0 has left its loop and sent TERM, no rank waits inside a
\* swap handshake for a message of a partner that has left its loop with
\* nothing in flight to it: such a rank stays blocked forever and its
\* handshake is never completed.
C1_NoRankBlockedForever ==
    rk[0].pc = "done" =>
      \A r \in Ranks :
        rk[r].pc \in {"recvDec", "recvL", "recvP0c"} =>
          ~(rk[r + 1].pc = "done" /\ chan[<<r + 1, r>>] = <<>>)

\* the log-posterior of a sample at the temperature of rank r
PosteriorAt(r, smp) == LogPost(Temp(r), smp.l, logp(smp.x))

\* C2: for every swap attempt decided by hot rank r on a pending proposal of
\* rank r-1, once both PTswap calls have returned: after an accept each rank
\* holds the (x, logL) the other held before, with the log-posterior
\* recomputed at its own temperature; after a reject both are unchanged.
C2_SwapExchangesStates ==
    \A r \in HotRanks :
      att[r].on /\ att[r].genuine /\ att[r].cret /\ att[r].hret =>
        IF att[r].acc
        THEN /\ att[r].cpost.x = att[r].hot.x /\ att[r].cpost.l = att[r].hot.l
             /\ att[r].hpost.x = att[r].cold.x /\ att[r].hpost.l = att[r].cold.l
             /\ att[r].cpost.p = PosteriorAt(r - 1, att[r].cpost)
             /\ att[r].hpost.p = PosteriorAt(r, att[r].hpost)
        ELSE att[r].cpost = att[r].cold /\ att[r].hpost = att[r].hot

\* (beta_{r-1} - beta_r) * (logL_r - logL_{r-1}) against log u, for the attempt
\* a: logL_{r-1} is the value received, logL_r the hotter rank's own value
SwapLaw(r, a) ==
    VGt(VScale(BetaOf(Temp(r - 1)) - BetaOf(Temp(r)), VSub(a.hot.l, a.recv)), a.logu)

DecidedByLaw(r) ==
    /\ SwapLaw(r, att[r]) = "T" => att[r].acc
    /\ SwapLaw(r, att[r]) = "F" => ~att[r].acc

\* C3 (as stated): a swap is accepted iff log u < (beta_r - beta_{r+1}) *
\* (logL_{r+1} - logL_r), and whenever the two log-likelihoods are equal the
\* swap is accepted.
C3_EqualAlwaysAccepted ==
    \A r \in HotRanks :
      att[r].on =>
        /\ DecidedByLaw(r)
        /\ att[r].recv.k \in {"num", "ninf", "pinf"} /\ att[r].recv = att[r].hot.l
             => att[r].acc

\* C3 (amended): a swap is accepted iff log u < (beta_r - beta_{r+1}) *
\* (logL_{r+1} - logL_r), and whenever the two log-likelihoods are equal and
\* finite the swap is accepted.
C3_SwapDecision ==
    \A r \in HotRanks :
      att[r].on =>
        /\ DecidedByLaw(r)
        /\ att[r].recv.k = "num" /\ att[r].recv = att[r].hot.l => att[r].acc

\* a swap proposal between chains of equal finite log-likelihood was accepted
C3_Witness ==
    \E r \in HotRanks :
      /\ att[r].on /\ att[r].acc /\ att[r].tag = TagSwap
      /\ att[r].recv.k = "num" /\ att[r].recv = att[r].hot.l

\* C5: if every rank starts at a point of finite log-prior, the current state
\* of every rank and every sample in its chain store has finite log-prior.
C5_FinitePrior ==
    (\A r \in Ranks : logp(cfg.start[r + 1]) # NegInf) =>
      \A r \in Ranks :
        rk[r].pc # "new" =>
          /\ logp(rk[r].p0) # NegInf
          /\ \A i \in 1..Len(rk[r].chain) : logp(rk[r].chain[i].x) # NegInf

C9_OneWriterPerFile ==
    /\ \A T \in DOMAIN writers.chain : Cardinality(writers.chain[T]) <= 1
    /\ writers.cov \subseteq {0}

\* C4: in one MH step a candidate of log-prior -inf is never accepted,
\* whatever the current log-posterior and qxy: its likelihood is not
\* evaluated, the step raises no error and reaches the swap protocol with
\* naccepted and (x, logL, log-posterior) as before the step.
C4_PriorRejection ==
    \A r \in Ranks :
      rk[r].mh.on =>
        /\ rk[r].pc = "swap"
        /\ ~rk[r].mh.acc
        /\ ~rk[r].mh.evalL
        /\ rk[r].naccepted = rk[r].mh.n0
        /\ rk[r].p0 = rk[r].mh.x0
        /\ rk[r].lnlike0 = rk[r].mh.l0
        /\ rk[r].lnprob0 = rk[r].mh.p0

\* a candidate outside the prior support, proposed with qxy = +inf from a
\* state of finite log-posterior, was rejected
C4_Witness ==
    \E r \in Ranks :
      /\ rk[r].mh.on /\ rk[r].pc = "swap"
      /\ rk[r].mh.qxy = PosInf /\ rk[r].mh.p0.k = "num"

\* C6: a run restarted with resume = True after a checkpoint does not fail,
\* and while it replays (iter < resumeLength) the vector it holds at
\* iteration i is the one the original run held at iteration i.
C6_ResumeReplaysOriginal ==
    \A r \in Ranks :
      rk[r].resume /\ rk[r].pc # "new" =>
        /\ rk[r].pc # "error"
        /\ rk[r].iter < rk[r].resumeLength => rk[r].p0 = orig[rk[r].iter + 1]

\* C7: after the checkpoint write of iteration i (i mod isave = 0) the rows
\* this run has appended to the chain file number
\* floor(i/thin) - floor(resumeLength/thin), and they are the stored samples
\* of distinct retained iterations.
C7_RowsPerCheckpoint ==
    \A r \in Ranks :
      /\ ~rk[r].resume /\ rk[r].pc \in {"top", "done"}
      /\ rk[r].iter > 1 /\ rk[r].iter % cfg.isave = 0
      => /\ Len(files[Temp(r)]) =
              rk[r].iter \div cfg.thin - rk[r].resumeLength \div cfg.thin
         /\ \A i, j \in 1..Len(files[Temp(r)]) :
              i # j => files[Temp(r)][i].ind # files[Temp(r)][j].ind

\* C10: once the cold chain has refitted the KDE, the KDE kernel is in its
\* proposal cycle with weight KDEweight.
C10_KDEActiveFromFirstRefit ==
    rk[0].kde # 0 =>
      Cardinality({i \in 1..Len(rk[0].propCycle) : rk[0].propCycle[i] = "KDE"})
        = cfg.KDEweight

\* the kernels present in the proposal cycle of a sampler
KernelSet(s) == {s.propCycle[i] : i \in 1..Len(s.propCycle)}

\* C11: on every rank the set of kernels in propCycle only grows over a run
\* (a restarted process begins a new run): it is {SCAM, AM} after initialize,
\* no step removes a kernel, and on the cold chain the KDE kernel is present
\* only together with the DE kernel.
C11_KernelsOnlyGrow ==
    /\ [](\A r \in Ranks :
            /\ rk[r].pc = "barrier" => KernelSet(rk[r]) = {"SCAM", "AM"}
            /\ rk[r].pc # "new" => {"SCAM", "AM"} \subseteq KernelSet(rk[r])
            /\ r = 0 /\ "KDE" \in KernelSet(rk[r]) => "DE" \in KernelSet(rk[r]))
    /\ [][\A r \in Ranks : \/ KernelSet(rk[r]) \subseteq KernelSet(rk'[r])
                            \/ rk'[r].pc = "new"]_vars

\* C13: every call of addProposalToCycle that returned had a strictly positive
\* weight (a weight that is not positive is fatal and appends nothing), and
\* propCycle is non-empty in every state after initialize.
C13_PositiveWeights ==
    \A r \in Ranks :
      /\ \A a \in rk[r].added : a.weight > 0
      /\ rk[r].pc \notin {"new", "error", "exit"} => Len(rk[r].propCycle) > 0

\* C12: a check of the effective sample count in which the autocorrelation
\* estimator failed leaves Neff = 0 and the sampling loop running: rank 0 has
\* not left sample() with an exception.
C12_EssFailureIsZero ==
    rk[0].ess \in {"failed", "missing"} => rk[0].Neff = 0 /\ rk[0].pc # "error"

\* C14: after any sequence of addSampler and constructGaussianKDE calls,
\* gaussianKDEJump called with a registered current model draws an index that
\* is within the list of the models having a KDE, and every model having a
\* KDE is one of the indices it can draw.
C14_TargetAmongKDEModels ==
    /\ rj.jump.on => rj.jump.ind < Cardinality(rj.TDJumpDict)
    /\ rj.samplerDict # {} => Cardinality(rj.TDJumpDict) <= rj.nmodels

\* C15: a covariance matrix that is not positive semi-definite is never
\* installed on a rank and never sent to a hot rank: the previous matrix is
\* retained.
C15_BadCovarianceDiscarded ==
    /\ \A r \in Ranks : PositiveSemiDefinite(rk[r].cov)
    /\ \A d \in HotRanks : \A i \in 1..Len(chan[<<0, d>>]) :
         chan[<<0, d>>][i].tag = TagCov => PositiveSemiDefinite(chan[<<0, d>>][i].v.n)

\* C16: the message a hot rank consumes in the swap-decision branch of PTswap
\* is a swap proposal of its colder neighbour, never a COV, DE or TERM
\* broadcast of rank 0.
C16_KindsNeverCross ==
    \A r \in HotRanks : att[r].on => att[r].tag = TagSwap

\* C17: a swap proposal that rank r - 1 sent at its iteration i and waits on
\* is decided by rank r while rank r is at the same iteration i: while neither
\* side has returned from PTswap of an accepted attempt, both are at the same
\* iteration.
C17_SameIteration ==
    \A r \in HotRanks :
      att[r].on /\ att[r].genuine /\ att[r].tag = TagSwap
        /\ ~att[r].cret /\ ~att[r].hret => rk[r].iter = rk[r - 1].iter

\* the own iterations with iter mod Tskip = 0 whose step has returned
StepsReturned(r) ==
    IF rk[r].pc \in {"top", "done", "barrier", "new"} THEN rk[r].iter ELSE rk[r].iter - 1

Weight(func) ==
    CASE func = "SCAM" -> cfg.SCAMweight
      [] func = "AM" -> cfg.AMweight
      [] func = "DE" -> cfg.DEweight
      [] func = "KDE" -> cfg.KDEweight

\* the number of entries of propCycle that hold func
Entries(s, func) == Cardinality({i \in 1..Len(s.propCycle) : s.propCycle[i] = func})

\* C19: on every rank each kernel present in propCycle occupies exactly its
\* weight many entries: the DE kernel is added once per rank, however many
\* DE-buffer broadcasts a hot rank receives.
C19_WeightManyEntries ==
    \A r \in Ranks : \A func \in KernelSet(rk[r]) : Entries(rk[r], func) = Weight(func)

\* a hot rank holds the DE buffer of the second broadcast and the DE kernel
C19_Witness ==
    \E r \in HotRanks : rk[r].DEbuffer = 2 * cfg.burn /\ InCycle(rk[r], "DE")

\* C20: on every rank, whenever the DE kernel is in the proposal cycle the DE
\* buffer of the rank is a snapshot of burn rows of the AM buffer, neither the
\* zero buffer of initialize nor a missing one.
C20_DEBufferPopulated ==
    \A r \in Ranks : InCycle(rk[r], "DE") => rk[r].DEbuffer >= cfg.burn /\ rk[r].DEbuffer > 0

\* rank 0 has added the DE kernel after burn in and a hot rank on a broadcast
C20_Witness ==
    /\ InCycle(rk[0], "DE") /\ rk[0].DEbuffer = cfg.burn
    /\ \E r \in HotRanks : InCycle(rk[r], "DE") /\ rk[r].DEbuffer = cfg.burn

\* C21: randomizeProposalCycle on a cycle of length L >= 1 draws its source
\* indices from the full range 0..L-1, the last position included, and
\* succeeds for L = 1.
C21_FullIndexRange ==
    \A r \in Ranks :
      LET L == Len(rk[r].propCycle)
      IN L >= 1 /\ rk[r].pc # "new" => RandintRange(L) = 0..(L - 1)

\* C22: the scale of a SCAM or AM step is 10 whenever u > 0.97, 0.2 whenever
\* 0.9 < u <= 0.97 and 1.0 otherwise.
C22_ScaleCascade ==
    kp.on =>
      kp.scale = IF kp.prob > LargeJumpAbove THEN LargeScale
                 ELSE IF kp.prob > SmallJumpAbove THEN SmallScale
                 ELSE MediumScale

\* C24: on rank 0 with the default maxIter, at every iteration the loop
\* reaches the AM-buffer index iter is below Niter and the thinned index
\* iter / thin of a stored iteration is below the N rows allocated.
C24_RankZeroInsideArrays ==
    cfg.maxIter = 0 /\ rk[0].pc # "new" =>
      /\ rk[0].iter < cfg.Niter
      /\ rk[0].iter % cfg.thin = 0 => rk[0].iter \div cfg.thin < NStore(0)

\* C25: with the default maxIter a hot rank that has not left its loop is at
\* an iteration below 2 Niter and its thinned store index is below the N rows
\* allocated.
C25_HotRankBelowCeiling ==
    \A r \in HotRanks :
      cfg.maxIter = 0 /\ rk[r].pc \notin {"new", "done"} =>
        /\ rk[r].iter < 2 * cfg.Niter
        /\ rk[r].iter % cfg.thin = 0 => rk[r].iter \div cfg.thin < NStore(r)

\* C26: when sample() has returned on rank 0 after a fresh run, the chain
\* file holds a row for every retained iteration up to the last one: at least
\* iter / thin rows.
C26_FileCompleteAtReturn ==
    rk[0].pc = "done" /\ ~rk[0].resume =>
      Len(files[Temp(0)]) >= rk[0].iter \div cfg.thin

\* C27: at every call of _jump randomizedPropCycle has the length of
\* propCycle and the entry selected is a kernel of propCycle; between steps
\* the two cycles have the same length on every rank that has not failed.
C27_RandomizedCycleCurrent ==
    \A r \in Ranks :
      /\ rk[r].jumpCall # "invalid"
      /\ rk[r].pc \notin {"new", "error", "exit"} =>
           /\ Len(rk[r].randomizedPropCycle) = Len(rk[r].propCycle)
           /\ \A i \in 1..Len(rk[r].randomizedPropCycle) :
                InCycle(rk[r], rk[r].randomizedPropCycle[i])

\* rank 0 and a hot rank have called _jump in a step that followed the
\* addition of the DE kernel
C27_Witness ==
    /\ rk[0].jumpCall = "valid" /\ rk[0].pc = "swap" /\ InCycle(rk[0], "DE")
    /\ \E r \in HotRanks :
         rk[r].jumpCall = "valid" /\ rk[r].pc = "swap" /\ InCycle(rk[r], "DE")

\* C23: with buffered sends the swap handshake is free of deadlock: a
\* proposal that rank 0 has sent and waits on is eventually answered by rank
\* 1, so rank 0 leaves the receive of the decision.
C23_ProposalAnswered ==
    (rk[0].pc = "recvDec") ~> (rk[0].pc # "recvDec")

====
